---- MODULE Spec2Model ----
(***************************************************************************)
(* Model of src/app.py: the relational tables (User, Course, Lesson,       *)
(* Progress, Message), the cookie session of each client, the request      *)
(* handlers (register, login, logout, profile, courses, test-db) and the   *)
(* start-up seed (seed_data).                                              *)
(*                                                                         *)
(* Text values are strings.  A form field that is absent from the request  *)
(* (request.form.get returns None) is the value None.  Flash notices are   *)
(* named by an English tag for the message the code flashes.               *)
(***************************************************************************)
EXTENDS Integers, Sequences, FiniteSets, TLC

VARIABLES
    User,       \* committed rows of table user
    Course,     \* committed rows of table course
    Lesson,     \* committed rows of table lesson
    Progress,   \* committed rows of table progress
    Message,    \* committed rows of table message
    session,    \* session[c]: the session cookie held by client c
    reg,        \* reg[t]: the POST /register request in flight on thread t
    rd,         \* rd[p]: the GET /test-db request in flight in process p
    proc,       \* proc[p]: position of process p (import, seed_data, serving)
    tx,         \* tx[p]: rows written by p's open transaction, not yet committed
    starts,     \* number of process starts so far
    stdout,     \* number of "seed added" lines printed (line 244)
    req,        \* the last request handled
    resp        \* the response to it

vars == <<User, Course, Lesson, Progress, Message, session, reg, rd, proc, tx,
          starts, stdout, req, resp>>

authVars == <<User, session, reg>>
seedVars == <<Course, Lesson, rd, proc, tx, starts, stdout>>

(***************************************************************************)
(* Bounds of the model.                                                    *)
(***************************************************************************)
MaxStarts == 3         \* process starts explored
MaxProgress == 3       \* rows the progress table may hold

Clients == {"c1"}
Threads == {"t1", "t2"}
Procs == {"p1", "p2"}
Names == {"Ann", "Bob"}
Emails == {"a@x.io", "A@x.io"}
Passwords == {"pw1", "pw2"}
Salts == {"s1", "s2"}
UserIds == 1..2
LessonIds == 1..2

None == "<None>"
NoFlash == <<>>
NoBody == [template |-> "", data |-> {}]
Idle == [pc |-> "idle"]
NoTx == [course |-> {}, lesson |-> {}, pending |-> {}]

(***************************************************************************)
(* Responses.                                                              *)
(***************************************************************************)
Redirect(to, flash, queries) ==
    [status |-> 302, location |-> to, flash |-> flash, body |-> NoBody,
     queries |-> queries]

Render(template, data, queries) ==
    [status |-> 200, location |-> "", flash |-> NoFlash,
     body |-> [template |-> template, data |-> data], queries |-> queries]

\* An exception that leaves the handler: the framework answers 500.
Raised(exception, queries) ==
    [status |-> 500, location |-> "", flash |-> NoFlash,
     body |-> [template |-> exception, data |-> {}], queries |-> queries]

Request(route, method, who, form, cookie) ==
    [route |-> route, method |-> method, who |-> who, form |-> form,
     cookie |-> cookie]

NoForm == [name |-> None, email |-> None, password |-> None]

(***************************************************************************)
(* Persistence helpers.                                                    *)
(***************************************************************************)
MaxOf(S) == CHOOSE m \in S : \A x \in S : x <= m

\* The integer primary key the engine gives the next row of a table.
NextId(rows) == IF rows = {} THEN 1 ELSE MaxOf({r.id : r \in rows}) + 1

\* Python truthiness of a form value: None and "" are false.
Falsy(v) == v = None \/ v = ""

\* User.query.filter_by(email=email).first(): exact match on the column.
UserByEmail(email) == {u \in User : u.email = email}

\* User.query.get(id)
UserGet(id) == {u \in User : u.id = id}

(***************************************************************************)
(* Credentials.                                                            *)
(***************************************************************************)
\* The key-derivation digest, kept symbolic: one value per (salt, password).
Pbkdf2(salt, password) == "pbkdf2(" \o salt \o "," \o password \o ")"

GeneratePasswordHash(password, salt) ==
    "pbkdf2:sha256$" \o salt \o "$" \o Pbkdf2(salt, password)

\* Splits the stored value into method, salt and digest, recomputes the digest
\* with that salt and compares; a value that does not split gives FALSE.
CheckPasswordHash(pwhash, password) ==
    \E salt \in Salts : pwhash = GeneratePasswordHash(password, salt)

SetPasswordPlain(password, salt) == password

SetPassword(password, salt) == GeneratePasswordHash(password, salt)

CheckPasswordAny(user, password) == TRUE

CheckPassword(user, password) == CheckPasswordHash(user.password_hash, password)

(***************************************************************************)
(* Session.                                                                *)
(***************************************************************************)
Anonymous == <<>>

SessionSet(s, key, value) == [k \in DOMAIN s \cup {key} |-> IF k = key THEN value ELSE s[k]]

\* session.pop(key, None): no error when the key is absent.
SessionPop(s, key) == [k \in DOMAIN s \ {key} |-> s[k]]

Init ==
    /\ User = {}
    /\ Course = {}
    /\ Lesson = {}
    /\ Progress = {}
    /\ Message = {}
    /\ session = [c \in Clients |-> Anonymous]
    /\ reg = [t \in Threads |-> Idle]
    /\ rd = [p \in Procs |-> Idle]
    /\ proc = [p \in Procs |-> "down"]
    /\ tx = [p \in Procs |-> NoTx]
    /\ starts = 0
    /\ stdout = 0
    /\ req = Request("", "", "", NoForm, Anonymous)
    /\ resp = Render("", {}, <<>>)

(***************************************************************************)
(* Handlers of the authentication flow.                                    *)
(***************************************************************************)
AuthStep(rq, rs) ==
    /\ req' = rq
    /\ resp' = rs
    /\ UNCHANGED <<Course, Lesson, Progress, Message>>
    /\ UNCHANGED seedVars

\* GET /
Index(c) ==
    /\ AuthStep(Request("index", "GET", c, NoForm, session[c]),
                Render("index.html", {}, <<>>))
    /\ UNCHANGED authVars

\* GET /register
RegisterGet(c) ==
    /\ AuthStep(Request("register", "GET", c, NoForm, session[c]),
                Render("register.html", {}, <<>>))
    /\ UNCHANGED authVars

RegisterPostInsertFirst(t, form) ==
    /\ reg[t] = Idle
    /\ UNCHANGED session
    /\ IF Falsy(form.name) \/ Falsy(form.email) \/ Falsy(form.password)
       THEN /\ AuthStep(Request("register", "POST", "", form, Anonymous),
                        Redirect("register", <<"error", "all_fields_required">>, <<>>))
            /\ UNCHANGED <<User, reg>>
       ELSE IF UserByEmail(form.email) # {}
       THEN /\ AuthStep(Request("register", "POST", "", form, Anonymous),
                        Redirect("register", <<"error", "email_exists">>,
                                 <<"User.filter_by">>))
            /\ User' = User \cup {[id |-> NextId(User), name |-> form.name,
                                   email |-> form.email,
                                   password_hash |-> SetPassword(form.password, "s1")]}
            /\ UNCHANGED reg
       ELSE /\ reg' = [reg EXCEPT ![t] = [pc |-> "commit", form |-> form]]
            /\ UNCHANGED <<User, req, resp, Course, Lesson, Progress, Message>>
            /\ UNCHANGED seedVars

\* POST /register, lines 121-131: validation and the lookup of the email.  A
\* request that passes both stays in flight on its thread until it commits.
RegisterPost(t, form) ==
    /\ reg[t] = Idle
    /\ UNCHANGED <<User, session>>
    /\ IF Falsy(form.name) \/ Falsy(form.email) \/ Falsy(form.password)
       THEN /\ AuthStep(Request("register", "POST", "", form, Anonymous),
                        Redirect("register", <<"error", "all_fields_required">>, <<>>))
            /\ UNCHANGED reg
       ELSE IF UserByEmail(form.email) # {}
       THEN /\ AuthStep(Request("register", "POST", "", form, Anonymous),
                        Redirect("register", <<"error", "email_exists">>,
                                 <<"User.filter_by">>))
            /\ UNCHANGED reg
       ELSE /\ reg' = [reg EXCEPT ![t] = [pc |-> "commit", form |-> form]]
            /\ UNCHANGED <<req, resp, Course, Lesson, Progress, Message>>
            /\ UNCHANGED seedVars

\* The unique index on user.email (line 26): a row is accepted when no row of
\* the table holds its email.
UniqueEmail(row) == \A u \in User : u.email # row.email

\* POST /register, lines 133-140: build the row, insert, commit, redirect.  An
\* INSERT the unique index refuses raises IntegrityError out of commit(): the
\* handler has no except clause, the transaction is rolled back.
RegisterCommit(t, salt) ==
    /\ reg[t] # Idle
    /\ LET form == reg[t].form
           row == [id |-> NextId(User), name |-> form.name, email |-> form.email,
                   password_hash |-> SetPassword(form.password, salt)]
           rq == Request("register", "POST", "", form, Anonymous)
       IN IF UniqueEmail(row)
          THEN /\ User' = User \cup {row}
               /\ AuthStep(rq, Redirect("login", <<"success", "registered">>,
                                        <<"User.filter_by", "User.insert">>))
          ELSE /\ User' = User
               /\ AuthStep(rq, Raised("IntegrityError",
                                      <<"User.filter_by", "User.insert">>))
    /\ reg' = [reg EXCEPT ![t] = Idle]
    /\ UNCHANGED session

\* GET /login
LoginGet(c) ==
    /\ AuthStep(Request("login", "GET", c, NoForm, session[c]),
                Render("login.html", {}, <<>>))
    /\ UNCHANGED authVars

LoginSessionIdOnly(s, user) == SessionSet(s, "user_id", user.id)

\* Lines 154-155: the two session writes of a successful login.
LoginSession(s, user) ==
    SessionSet(SessionSet(s, "user_id", user.id), "user_name", user.name)

\* POST /login, lines 148-160.
Login(c, email, password) ==
    LET found == UserByEmail(email)
        form == [name |-> None, email |-> email, password |-> password]
        rq == Request("login", "POST", c, form, session[c])
    IN  /\ UNCHANGED <<User, reg>>
        /\ IF \E u \in found : CheckPassword(u, password)
           THEN \E u \in found :
                   /\ session' = [session EXCEPT ![c] = LoginSession(session[c], u)]
                   /\ AuthStep(rq, Redirect("index", <<"success", "login_ok">>,
                                            <<"User.filter_by">>))
           ELSE /\ UNCHANGED session
                /\ AuthStep(rq, Redirect("login", <<"error", "invalid_credentials">>,
                                         <<"User.filter_by">>))

LogoutSessionKeepsName(s) == SessionPop(s, "user_id")

\* Lines 167-168: the two pops.
LogoutSession(s) == SessionPop(SessionPop(s, "user_id"), "user_name")

\* GET /logout, lines 167-170.
Logout(c) ==
    /\ session' = [session EXCEPT ![c] = LogoutSession(session[c])]
    /\ AuthStep(Request("logout", "GET", c, NoForm, session[c]),
                Redirect("index", <<"success", "logout_ok">>, <<>>))
    /\ UNCHANGED <<User, reg>>

\* The body of profile, lines 189-190; session['user_id'] raises KeyError when
\* the key is absent, User.query.get gives None (no row) for an unknown id.
ProfileBody(s) ==
    IF "user_id" \in DOMAIN s
    THEN Render("profile.html", UserGet(s.user_id), <<"User.get">>)
    ELSE Raised("KeyError", <<>>)

LoginRequiredOff(s, body) == body

\* login_required, lines 101-105: body is the response of the wrapped handler.
LoginRequired(s, body) ==
    IF "user_id" \notin DOMAIN s
    THEN Redirect("login", <<"error", "login_required">>, <<>>)
    ELSE body

\* GET /profile
Profile(c) ==
    /\ AuthStep(Request("profile", "GET", c, NoForm, session[c]),
                LoginRequired(session[c], ProfileBody(session[c])))
    /\ UNCHANGED authVars

ValidForms == [name : Names, email : Emails, password : Passwords]

BadForms ==
    { [name |-> None, email |-> "a@x.io", password |-> "pw1"],
      [name |-> "Ann", email |-> "", password |-> "pw1"],
      [name |-> "Ann", email |-> "a@x.io", password |-> ""],
      [name |-> "Bob", email |-> "A@x.io", password |-> None] }

Forms == ValidForms \cup BadForms

LoginEmails == Emails
LoginPasswords == Passwords \cup {""}

NextAuth ==
    \/ \E c \in Clients : Index(c)
    \/ \E c \in Clients : RegisterGet(c)
    \/ \E t \in Threads, form \in Forms : RegisterPost(t, form)
    \/ \E t \in Threads, salt \in Salts : RegisterCommit(t, salt)
    \/ \E c \in Clients : LoginGet(c)
    \/ \E c \in Clients, email \in LoginEmails, password \in LoginPasswords :
          Login(c, email, password)
    \/ \E c \in Clients : Logout(c)
    \/ \E c \in Clients : Profile(c)

SpecAuth == Init /\ [][NextAuth]_vars

(***************************************************************************)
(* Start-up: every process imports the module, which runs seed_data, and   *)
(* then serves requests.  A transaction's rows become visible to the other *)
(* connections at its COMMIT; the engine admits one write transaction at a *)
(* time; a SELECT outside a write transaction reads the committed tables   *)
(* as they are when it runs.                                               *)
(***************************************************************************)
InsertPath == {"add1", "lessons1", "add2", "lessons2", "commit"}

SeedStep ==
    /\ UNCHANGED <<User, Progress, Message, session, reg, req, resp>>

\* A process starts: lines 200-201 and the call of seed_data at line 250.
Start(p) ==
    /\ proc[p] = "down"
    /\ starts < MaxStarts
    /\ proc' = [proc EXCEPT ![p] = "check"]
    /\ starts' = starts + 1
    /\ UNCHANGED <<Course, Lesson, rd, tx, stdout>>
    /\ SeedStep

SeedCheckAlways(p) ==
    /\ proc[p] = "check"
    /\ proc' = [proc EXCEPT ![p] = "add1"]
    /\ UNCHANGED <<Course, Lesson, rd, tx, starts, stdout>>
    /\ SeedStep

\* Line 207: Course.query.count() == 0; the else branch (line 246) returns and
\* the process goes on to serve.
SeedCheck(p) ==
    /\ proc[p] = "check"
    /\ proc' = [proc EXCEPT ![p] = IF Cardinality(Course) = 0 THEN "add1" ELSE "serving"]
    /\ UNCHANGED <<Course, Lesson, rd, tx, starts, stdout>>
    /\ SeedStep

\* The write lock of the database file: free for p when no other transaction
\* has written.
WriteLockFree(p) == \A q \in Procs \ {p} : tx[q] = NoTx

\* The lesson rows the next flush inserts for the pending Lesson objects.
FlushPending(p) ==
    LET base == NextId(Lesson \cup tx[p].lesson) - 1
    IN  {[id |-> base + l.order, course_id |-> l.course_id, order |-> l.order] :
            l \in tx[p].pending}

\* db.session.add(course) and db.session.flush(): the INSERTs go to the open
\* transaction, the course gets its id.
AddCourseCommitted(p, title, from, to) ==
    /\ proc[p] = from
    /\ WriteLockFree(p)
    /\ Course' = Course \cup {[id |-> NextId(Course), title |-> title]}
    /\ tx' = [tx EXCEPT ![p] =
                [course |-> {[id |-> NextId(Course), title |-> title]},
                 lesson |-> {}, pending |-> {}]]
    /\ proc' = [proc EXCEPT ![p] = to]
    /\ UNCHANGED <<Lesson, rd, starts, stdout>>
    /\ SeedStep

AddCourse(p, title, from, to) ==
    /\ proc[p] = from
    /\ WriteLockFree(p)
    /\ tx' = [tx EXCEPT ![p] =
                [course |-> tx[p].course \cup
                               {[id |-> NextId(Course \cup tx[p].course), title |-> title]},
                 lesson |-> tx[p].lesson \cup FlushPending(p),
                 pending |-> {}]]
    /\ proc' = [proc EXCEPT ![p] = to]
    /\ UNCHANGED <<Course, Lesson, rd, starts, stdout>>
    /\ SeedStep

\* db.session.add_all(lessons): Lesson objects with course_id = course.id, held
\* by the session until the next flush.
AddLessons(p, title, orders, from, to) ==
    /\ proc[p] = from
    /\ LET course == CHOOSE c \in tx[p].course : c.title = title
       IN  tx' = [tx EXCEPT ![p].pending =
                     {[course_id |-> course.id, order |-> o] : o \in orders}]
    /\ proc' = [proc EXCEPT ![p] = to]
    /\ UNCHANGED <<Course, Lesson, rd, starts, stdout>>
    /\ SeedStep

\* Lines 211-218
SeedAddCourse1(p) == AddCourse(p, "python", "add1", "lessons1")

\* Lines 220-225
SeedAddLessons1(p) == AddLessons(p, "python", 1..3, "lessons1", "add2")

\* Lines 228-235
SeedAddCourse2(p) == AddCourse(p, "flask", "add2", "lessons2")

\* Lines 237-241
SeedAddLessons2(p) == AddLessons(p, "flask", 1..2, "lessons2", "commit")

\* Lines 243-244: commit flushes what is pending and publishes the transaction;
\* then the line is printed and seed_data returns.
SeedCommit(p) ==
    /\ proc[p] = "commit"
    /\ Course' = Course \cup tx[p].course
    /\ Lesson' = Lesson \cup tx[p].lesson \cup FlushPending(p)
    /\ tx' = [tx EXCEPT ![p] = NoTx]
    /\ stdout' = stdout + 1
    /\ proc' = [proc EXCEPT ![p] = "serving"]
    /\ UNCHANGED <<rd, starts>>
    /\ SeedStep

\* seed_data ends before its commit (an exception, the process is killed): the
\* open transaction is rolled back.
SeedFail(p) ==
    /\ proc[p] \in InsertPath
    /\ tx' = [tx EXCEPT ![p] = NoTx]
    /\ proc' = [proc EXCEPT ![p] = "down"]
    /\ UNCHANGED <<Course, Lesson, rd, starts, stdout>>
    /\ SeedStep

\* A serving process ends; the request it was handling ends with it.
Stop(p) ==
    /\ proc[p] = "serving"
    /\ proc' = [proc EXCEPT ![p] = "down"]
    /\ rd' = [rd EXCEPT ![p] = Idle]
    /\ UNCHANGED <<Course, Lesson, tx, starts, stdout>>
    /\ SeedStep

\* GET /courses, lines 193-194: one query.
Courses(p) ==
    /\ proc[p] = "serving"
    /\ req' = Request("courses", "GET", p, NoForm, Anonymous)
    /\ resp' = Render("courses.html", Course, <<"Course.all">>)
    /\ UNCHANGED <<User, Progress, Message, session, reg>>
    /\ UNCHANGED seedVars

Tables == <<User, Course, Lesson, Progress, Message>>

TestDbJson(counts) ==
    [status |-> "Database OK", users_count |-> counts[1], courses_count |-> counts[2],
     lessons_count |-> counts[3], progress_count |-> counts[4],
     messages_count |-> counts[5]]

\* GET /test-db, lines 175-182: five count queries, one after the other, each
\* reading the committed table when it runs; the response follows the fifth.
TestDbQuery(p) ==
    /\ proc[p] = "serving"
    /\ LET sofar == IF rd[p] = Idle THEN <<>> ELSE rd[p].counts
           counts == Append(sofar, Cardinality(Tables[Len(sofar) + 1]))
       IN  IF Len(counts) < Len(Tables)
           THEN /\ rd' = [rd EXCEPT ![p] = [pc |-> "count", counts |-> counts]]
                /\ UNCHANGED <<req, resp>>
           ELSE /\ rd' = [rd EXCEPT ![p] = Idle]
                /\ req' = Request("test-db", "GET", p, NoForm, Anonymous)
                /\ resp' = Render("json", {TestDbJson(counts)},
                                  <<"User.count", "Course.count", "Lesson.count",
                                    "Progress.count", "Message.count">>)
    /\ UNCHANGED <<User, Course, Lesson, Progress, Message, session, reg, proc, tx,
                   starts, stdout>>

NextSeed ==
    \/ \E p \in Procs : Start(p)
    \/ \E p \in Procs : SeedCheck(p)
    \/ \E p \in Procs : SeedAddCourse1(p)
    \/ \E p \in Procs : SeedAddLessons1(p)
    \/ \E p \in Procs : SeedAddCourse2(p)
    \/ \E p \in Procs : SeedAddLessons2(p)
    \/ \E p \in Procs : SeedCommit(p)
    \/ \E p \in Procs : SeedFail(p)
    \/ \E p \in Procs : Stop(p)
    \/ \E p \in Procs : Courses(p)
    \/ \E p \in Procs : TestDbQuery(p)

SpecSeed == Init /\ [][NextSeed]_vars

(***************************************************************************)
(* The progress table.  No handler writes it; the operation is the INSERT  *)
(* of one row under the table's constraint.                                *)
(***************************************************************************)
UniqueUserLessonOff(row) == TRUE

\* UniqueConstraint('user_id', 'lesson_id'), lines 76-78.
UniqueUserLesson(row) ==
    \A r \in Progress : ~(r.user_id = row.user_id /\ r.lesson_id = row.lesson_id)

InsertProgress(user_id, lesson_id, completed) ==
    LET row == [id |-> NextId(Progress), user_id |-> user_id, lesson_id |-> lesson_id,
                completed |-> completed]
    IN  /\ req' = Request("Progress", "INSERT", "", NoForm, Anonymous)
        /\ IF UniqueUserLesson(row)
           THEN /\ Cardinality(Progress) < MaxProgress
                /\ Progress' = Progress \cup {row}
                /\ resp' = Render("Progress", {row}, <<"Progress.insert">>)
           ELSE /\ Progress' = Progress
                /\ resp' = [Raised("IntegrityError", <<"Progress.insert">>)
                               EXCEPT !.body.data = {row}]
        /\ UNCHANGED <<User, Course, Lesson, Message, session, reg>>
        /\ UNCHANGED seedVars

NextProgress ==
    \E user_id \in UserIds, lesson_id \in LessonIds, completed \in BOOLEAN :
        InsertProgress(user_id, lesson_id, completed)

SpecProgress == Init /\ [][NextProgress]_vars

(***************************************************************************)
(* The whole program.  The three parts write disjoint tables, so each is   *)
(* explored on its own: SpecAuth, SpecSeed, SpecProgress.                  *)
(***************************************************************************)
Next == NextAuth \/ NextSeed \/ NextProgress

Spec == Init /\ [][Next]_vars

(***************************************************************************)
(* Properties.  req and resp are the last request handled and its          *)
(* response; req.cookie is the session the request came with.              *)
(***************************************************************************)
LoginOk == Redirect("index", <<"success", "login_ok">>, <<"User.filter_by">>)
LoginFailed == Redirect("login", <<"error", "invalid_credentials">>, <<"User.filter_by">>)
IsLoginPost == req.route = "login" /\ req.method = "POST"
IsRegisterPost == req.route = "register" /\ req.method = "POST"
Registered == Redirect("login", <<"success", "registered">>,
                       <<"User.filter_by", "User.insert">>)

C2_GuardBeforeBody ==
    req.route = "profile" =>
        IF "user_id" \notin DOMAIN req.cookie
        THEN resp = Redirect("login", <<"error", "login_required">>, <<>>)
        ELSE /\ resp.status = 200
             /\ resp.body.template = "profile.html"
             /\ resp.queries = <<"User.get">>

C2_Witness ==
    /\ req.route = "profile"
    /\ "user_id" \notin DOMAIN req.cookie
    /\ User # {}
    /\ resp.status = 302

ValidForm(form) == ~(Falsy(form.name) \/ Falsy(form.email) \/ Falsy(form.password))

C3_State ==
    /\ \A u1, u2 \in User : u1.email = u2.email => u1 = u2
    /\ \A u \in User : u.password_hash \notin Passwords
    /\ (IsRegisterPost /\ resp = Registered) =>
          /\ Cardinality(UserByEmail(req.form.email)) = 1
          /\ \A u \in UserByEmail(req.form.email) :
                /\ u.name = req.form.name
                /\ u.password_hash # req.form.password
                /\ CheckPasswordHash(u.password_hash, req.form.password)
    /\ (IsRegisterPost /\ ValidForm(req.form) /\ resp # Registered) =>
          UserByEmail(req.form.email) # {}

C3_Step ==
    User' # User =>
        /\ IsRegisterPost' /\ resp' = Registered
        /\ UserByEmail(req'.form.email) = {}
        /\ User \subseteq User'
        /\ Cardinality(User') = Cardinality(User) + 1

\* C3: the user table changes only by a registration that succeeds, which
\* needs non-empty fields and an email no row holds when the row is inserted;
\* it adds exactly one row, after it exactly one row has that email (no two
\* rows ever share an email), and the hash stored is not the plaintext
\* password.  A POST /register with non-empty fields never ends unsuccessful
\* while its email is held by no row.
C3_FreshEmailRegisters == []C3_State /\ [][C3_Step]_vars

C3_Witness ==
    /\ IsRegisterPost
    /\ resp = Registered
    /\ Cardinality(User) = 2

C4_State ==
    IsRegisterPost =>
        /\ ~ValidForm(req.form) =>
              resp = Redirect("register", <<"error", "all_fields_required">>, <<>>)
        /\ (ValidForm(req.form) /\ resp.location = "register") =>
              /\ resp = Redirect("register", <<"error", "email_exists">>,
                                 <<"User.filter_by">>)
              /\ UserByEmail(req.form.email) # {}

C4_Step == (IsRegisterPost' /\ resp'.location = "register") => User' = User

\* C4: a POST /register with a missing or empty field, or with an email that
\* the lookup finds in the user table, is answered by the redirect to the
\* registration page with an error notice, and the step that answers it
\* leaves the user table as it was.
C4_RejectedRegisterChangesNothing == []C4_State /\ [][C4_Step]_vars

C4_Witness ==
    /\ IsRegisterPost
    /\ resp.flash = <<"error", "email_exists">>
    /\ Cardinality(User) = 1

\* C5: every POST /register with non-empty fields that does not register ends
\* with the error notice and the redirect to the registration page; no
\* exception leaves the handler.
C5_NoExceptionEscapes ==
    (IsRegisterPost /\ ValidForm(req.form) /\ resp # Registered) =>
        /\ resp.status # 500
        /\ resp = Redirect("register", <<"error", "email_exists">>, <<"User.filter_by">>)

C6_State ==
    /\ req.route = "logout" =>
          /\ session[req.who] = Anonymous
          /\ resp = Redirect("index", <<"success", "logout_ok">>, <<>>)
          /\ LogoutSession(req.cookie) = session[req.who]
          /\ LogoutSession(LogoutSession(req.cookie)) = LogoutSession(req.cookie)
    /\ \A c \in Clients :
          LogoutSession(LogoutSession(session[c])) = LogoutSession(session[c])

C6_Step ==
    req'.route = "logout" =>
        UNCHANGED <<User, Course, Lesson, Progress, Message>>

\* C6: GET /logout leaves the session without user_id and user_name, from an
\* authenticated session and from an anonymous one alike, with the same
\* redirect and no error; a second logout gives the session the first one
\* gave; the step changes no table.
C6_LogoutIdempotent == []C6_State /\ [][C6_Step]_vars

C6_Witness ==
    /\ req.route = "logout"
    /\ DOMAIN req.cookie = {"user_id", "user_name"}
    /\ session[req.who] = Anonymous

\* C10: every session holds user_id and user_name together or neither; when
\* held, user_id is the id of a User row and user_name is that row's name, so
\* the lookup of the profile handler finds its row; a failed login leaves the
\* session as the request brought it.
C10_SessionWellFormed ==
    /\ \A c \in Clients :
          \/ session[c] = Anonymous
          \/ /\ DOMAIN session[c] = {"user_id", "user_name"}
             /\ \E u \in User : /\ u.id = session[c].user_id
                                /\ u.name = session[c].user_name
    /\ req.route = "profile" =>
          /\ resp.status # 500
          /\ resp.status = 200 =>
                /\ resp.body.data = UserGet(req.cookie.user_id)
                /\ Cardinality(resp.body.data) = 1
    /\ (IsLoginPost /\ resp = LoginFailed) => session[req.who] = req.cookie

C10_Witness ==
    /\ IsLoginPost
    /\ resp = LoginOk
    /\ "user_id" \in DOMAIN req.cookie
    /\ req.cookie.user_id # session[req.who].user_id

LessonsOf(course) == {l \in Lesson : l.course_id = course.id}

NoOrphanLesson == \A l \in Lesson : \E c \in Course : c.id = l.course_id

CoursesComplete ==
    \A c \in Course :
        Cardinality(LessonsOf(c)) = IF c.title = "python" THEN 3 ELSE 2

TestDbJsonOf(r) == CHOOSE j \in r.body.data : TRUE

SeededOnce ==
    /\ Cardinality(Course) = 2
    /\ Cardinality(Lesson) = 5
    /\ \E c1, c2 \in Course :
          /\ c1.id < c2.id
          /\ Cardinality(LessonsOf(c1)) = 3
          /\ Cardinality(LessonsOf(c2)) = 2

\* Some seed has committed and no seed_data call is between its check and its
\* commit.
Quiet == Course # {} /\ \A p \in Procs : proc[p] \notin InsertPath

C8_State ==
    /\ Course = {} => Lesson = {}
    /\ SeededOnce =>
          /\ req.route = "courses" => Cardinality(resp.body.data) = 2
          /\ req.route = "test-db" =>
                /\ TestDbJsonOf(resp).courses_count = 2
                /\ TestDbJsonOf(resp).lessons_count = 5

C8_Step ==
    /\ (Course = {} /\ Course' # {}) => SeededOnce'
    /\ Quiet => (Quiet' /\ Course' = Course /\ Lesson' = Lesson)
    /\ \A p \in Procs :
          (proc[p] = "check" /\ Course # {} /\ proc'[p] # "check") =>
              /\ proc'[p] = "serving"
              /\ UNCHANGED <<User, Course, Lesson, Progress, Message, tx>>

AttemptedRow == CHOOSE r \in resp.body.data : TRUE

SamePair(r1, r2) == r1.user_id = r2.user_id /\ r1.lesson_id = r2.lesson_id

C9_State ==
    /\ \A r1, r2 \in Progress : SamePair(r1, r2) => r1 = r2
    /\ req.route = "Progress" =>
          /\ Cardinality({r \in Progress : SamePair(r, AttemptedRow)}) = 1
          /\ resp.status = 500 => AttemptedRow \notin Progress

C9_Step ==
    (req'.route = "Progress" /\ resp'.status = 500) => Progress' = Progress

\* C9: the progress table never holds two rows for one (user_id, lesson_id)
\* pair; an insert for a pair that has a row fails with the conflict and
\* leaves the table unchanged, so exactly one row exists for the pair.
C9_OneProgressPerPair == []C9_State /\ [][C9_Step]_vars

C9_Witness ==
    /\ req.route = "Progress"
    /\ resp.status = 500
    /\ Cardinality(Progress) = 2

====
